---- MODULE Spec2Model ----
(***************************************************************************)
(* Recipe batching dashboard (src/app.py): the recipe schema normalizer,   *)
(* the scaling-mode dispatch of the batching screen, show_scaled_result /  *)
(* make_scaled_recipe, and the utility scalers scale_recipe_to_target_     *)
(* weight and adjust_recipe_with_constraints.                              *)
(*                                                                         *)
(* Units.  Base ingredient quantities are whole grams, as in the recipe    *)
(* table.  Operator inputs and every computed weight are integers counted  *)
(* in hundredths of a gram (cg).  A scale factor is an exact fraction      *)
(* <<numerator, denominator>> in lowest terms.  Python computes in binary  *)
(* floating point; its relative error (about 1e-16) is far below the       *)
(* hundredth of a gram and shows only where a product falls exactly half   *)
(* way between two representable results: there round() may go either way, *)
(* and the model takes both.                                               *)
(***************************************************************************)
EXTENDS Integers, Sequences, FiniteSets, TLC

(* ------------------------------ bounds -------------------------------- *)

\* base quantities are 0 g and the multiples of 50 g up to 50 * MaxQtySteps
MaxQtySteps == 2
\* container counts entered in the container modes range up to MaxContainers
MaxContainers == 2
\* normalize_recipes_schema is applied to its own result up to MaxNormCalls times
MaxNormCalls == 2

(* ------------------------- program constants -------------------------- *)

\* VOL_5L_L = 5.0 litres, in millilitres
VOL_5L_ML == 5000
\* VOL_1_5GAL_L = 1.5 * GAL_TO_L = 5.678117676 litres, kept to the millilitre
VOL_1_5GAL_ML == 5678
\* default mix density 1.03 g/mL, in hundredths of g/mL
DEFAULT_DENSITY == 103

(* ------------------------------ arithmetic ---------------------------- *)

Abs(x) == IF x < 0 THEN -x ELSE x

RECURSIVE GCD(_, _)
GCD(a, b) == IF b = 0 THEN a ELSE GCD(b, a % b)

\* the value n / d (d > 0, n >= 0) as a fraction in lowest terms
Frac(n, d) == LET g == GCD(n, d) IN <<n \div g, d \div g>>

One == <<1, 1>>

FracLeq(x, y) == x[1] * y[2] <= y[1] * x[2]

\* min(ratios) of a non-empty set of fractions
FracMin(S) == CHOOSE x \in S : \A y \in S : FracLeq(x, y)

\* The integers round() can return for num / den (den > 0): the nearest
\* integer; both neighbours when num / den lies exactly half way.
RoundSet(num, den) ==
    LET q == num \div den
        r == num % den
    IN  IF 2 * r < den THEN {q}
        ELSE IF 2 * r > den THEN {q + 1}
        ELSE {q, q + 1}

\* k * f as a fraction <<n, d>>, cancelling before multiplying
Times(k, f) == LET g == GCD(k, f[2]) IN <<(k \div g) * f[1], f[2] \div g>>

\* round(v * scale_factor): whole grams, given here in cg
Round0(qty, f) == {100 * g : g \in RoundSet(Times(qty, f)[1], Times(qty, f)[2])}

\* Round2 rounding to whole grams, as round() without ndigits does
Round2_WholeGrams(qty, f) ==
    {100 * g : g \in RoundSet(Times(qty, f)[1], Times(qty, f)[2])}

\* round(float(qty) * scale_factor, 2): results in cg, qty in grams
Round2(qty, f) == RoundSet(Times(100 * qty, f)[1], Times(100 * qty, f)[2])

RECURSIVE SumOver(_, _)
\* sum(m.values()) over the keys in S
SumOver(m, S) ==
    IF S = {} THEN 0
    ELSE LET k == CHOOSE x \in S : TRUE IN m[k] + SumOver(m, S \ {k})

Sum(m) == SumOver(m, DOMAIN m)

(* ------------------------------ JSON values --------------------------- *)
(* A loaded JSON value is a record with a type tag t and a payload v; the  *)
(* payload is empty unless the tag is the one that carries it.             *)

IngNames == {"a", "b"}
RecipeNames == {"r1", "r2"}
SubNames == {"sauce"}

EmptyMap == [x \in {} |-> 0]

Absent == "absent"

\* instruction values: v is the list of steps (the one string for "str")
InstrAbsent == [t |-> Absent, v |-> <<>>]
InstrNull   == [t |-> "null", v |-> <<>>]
InstrNum    == [t |-> "num", v |-> <<>>]
InstrStr(s) == [t |-> "str", v |-> <<s>>]
InstrList(l) == [t |-> "list", v |-> l]

\* ingredients values: v is the mapping name -> grams
IngAbsent == [t |-> Absent, v |-> EmptyMap]
IngNull   == [t |-> "null", v |-> EmptyMap]
IngList   == [t |-> "list", v |-> EmptyMap]
IngDict(m) == [t |-> "dict", v |-> m]

\* subrecipes values: v is the mapping name -> sub-recipe entry
SubAbsent == [t |-> Absent, v |-> EmptyMap]
SubNull   == [t |-> "null", v |-> EmptyMap]
SubList   == [t |-> "list", v |-> EmptyMap]
SubDict(m) == [t |-> "dict", v |-> m]

\* a sub-recipe entry that is a mapping, and one that is not
SubEntry(ing, instr) == [t |-> "dict", ingredients |-> ing, instruction |-> instr]
SubScalar == [t |-> "str", ingredients |-> IngAbsent, instruction |-> InstrAbsent]

\* a recipe entry that is a mapping, and one that is not
RecipeEntry(ing, instr, sub) ==
    [t |-> "dict", ingredients |-> ing, instruction |-> instr, subrecipes |-> sub]
RecipeScalar ==
    [t |-> "str", ingredients |-> IngAbsent, instruction |-> InstrAbsent,
     subrecipes |-> SubAbsent]

(* ------------------------- raw recipe documents ----------------------- *)

QtySet == {0} \cup {50 * k : k \in 1..MaxQtySteps}

\* every mapping from some of the names in S to a value in V
Maps(S, V) == UNION {[D -> V] : D \in SUBSET S}

Steps == <<"1) Combine all ingredients.">>
SubSteps == <<"Cook the sauce.">>

\* the sub-recipe of the recipe table's shape: ingredients and instruction
TableSub == [sauce |-> SubEntry(IngDict([a |-> 50]), InstrList(SubSteps))]

\* Entries shaped like those of the recipe table (src/app.py:178): a mapping
\* with ingredients, and with or without instruction and subrecipes.
TableEntries ==
    {RecipeEntry(IngDict(m), InstrAbsent, SubAbsent) : m \in Maps(IngNames, QtySet)}
    \cup
    {RecipeEntry(IngDict(m), InstrList(Steps), SubDict(TableSub)) :
        m \in Maps(IngNames, QtySet)}

\* Values a loaded document can hold in place of a well-formed entry.
RawIngredients == {IngAbsent, IngNull, IngList, IngDict(EmptyMap), IngDict([a |-> 100])}
RawInstructions ==
    {InstrAbsent, InstrNull, InstrNum, InstrStr("Bake."), InstrList(<<>>), InstrList(Steps)}
RawSubEntries ==
    {SubScalar,
     SubEntry(IngAbsent, InstrAbsent),
     SubEntry(IngNull, InstrNull),
     SubEntry(IngDict([a |-> 50]), InstrStr("Cook.")),
     SubEntry(IngDict([a |-> 50]), InstrNum),
     SubEntry(IngDict([a |-> 50]), InstrList(SubSteps))}
RawSubrecipes ==
    {SubAbsent, SubNull, SubList, SubDict(EmptyMap)}
    \cup {SubDict([sauce |-> e]) : e \in RawSubEntries}
RawEntries ==
    {RecipeScalar}
    \cup {RecipeEntry(i, n, s) :
            i \in RawIngredients, n \in RawInstructions, s \in RawSubrecipes}

\* what the second entry of a raw document is drawn from
RawOthers ==
    {RecipeScalar,
     RecipeEntry(IngAbsent, InstrAbsent, SubAbsent),
     RecipeEntry(IngDict([a |-> 100]), InstrList(Steps), SubNull)}

RawDocs == {[r1 |-> x, r2 |-> y] : x \in RawEntries, y \in RawOthers}

(* ---------------------- normalize_recipes_schema ---------------------- *)

\* r.setdefault("ingredients", {}): only a missing key is filled in
NormIngredients(ing) == IF ing.t = Absent THEN IngDict(EmptyMap) ELSE ing

\* NormInstruction turning a missing or null instruction into an empty
\* string, which a later application wraps into a list
NormInstruction_NullAsText(instr) ==
    IF instr.t \in {Absent, "null"} THEN InstrStr("")
    ELSE IF instr.t = "str" THEN InstrList(instr.v)
    ELSE instr

\* instr = r.get("instruction", []); None -> []; str -> [str]; else as is
NormInstruction(instr) ==
    IF instr.t \in {Absent, "null"} THEN InstrList(<<>>)
    ELSE IF instr.t = "str" THEN InstrList(instr.v)
    ELSE instr

\* r.setdefault("subrecipes", {}): only a missing key is filled in
NormSubrecipesKey(sub) == IF sub.t = Absent THEN SubDict(EmptyMap) ELSE sub

\* the body of the inner loop, for one sub-recipe entry
NormSubEntry(s) ==
    IF s.t # "dict" THEN s
    ELSE SubEntry(NormIngredients(s.ingredients), NormInstruction(s.instruction))

\* the body of the outer loop, for one entry whose subrecipes has .items()
NormEntry(r) ==
    IF r.t # "dict" THEN r
    ELSE LET sub == NormSubrecipesKey(r.subrecipes)
         IN  RecipeEntry(NormIngredients(r.ingredients),
                         NormInstruction(r.instruction),
                         SubDict([n \in DOMAIN sub.v |-> NormSubEntry(sub.v[n])]))

\* r["subrecipes"].items() raises AttributeError when the value under the key
\* is None or a list: setdefault leaves such a value in place
NormRaises(recipes_) ==
    \E n \in DOMAIN recipes_ :
        /\ recipes_[n].t = "dict"
        /\ NormSubrecipesKey(recipes_[n].subrecipes).t # "dict"

\* normalize_recipes_schema(recipes): the returned mapping, unless it raises
NormalizeRecipesSchema(recipes_) ==
    IF NormRaises(recipes_)
    THEN [raised |-> TRUE,  val |-> recipes_]
    ELSE [raised |-> FALSE, val |-> [n \in DOMAIN recipes_ |-> NormEntry(recipes_[n])]]

(* -------------- inventory and threshold record values ----------------- *)
(* A number-like JSON value is a record with a type tag t and the number   *)
(* v it stands for: "int" and "float" numbers, "numstr" a string holding   *)
(* the digits of v, "text" a string that holds no number.                  *)

NumAbsent == [t |-> Absent, v |-> 0]
NumNull   == [t |-> "null", v |-> 0]
PyInt(n)   == [t |-> "int", v |-> n]
PyFloat(n) == [t |-> "float", v |-> n]
NumStr(n)  == [t |-> "numstr", v |-> n]
PyText     == [t |-> "text", v |-> 0]

\* float(x) raises for None and for a string that holds no number
FloatRaises(x) == x.t \notin {"int", "float", "numstr"}
\* float(x) where it returns
Float(x) == PyFloat(x.v)
\* bool(x) is False: None and the numbers equal to 0
Falsy(x) == x.t = "null" \/ (x.t \in {"int", "float"} /\ x.v = 0)

\* unit values: a string v, or a missing key, null, or a number other than 0
UnitAbsent == [t |-> Absent, v |-> ""]
UnitNull   == [t |-> "null", v |-> ""]
UnitNum    == [t |-> "num", v |-> ""]
UnitStr(s) == [t |-> "str", v |-> s]

\* str.lower() on the unit strings drawn here
Lower(s) == IF s = "KG" THEN "kg" ELSE s

\* the keys of UNIT_FACTORS, the unit_options of the inventory screen
UNIT_FACTORS == {"g", "kg", "lb", "oz"}
UNIT_OPTIONS == {"cans", "50lbs bags", "grams", "liters", "gallons"}

\* an inventory value: a mapping with amount and unit, or a bare value v
InvDict(amount, unit) == [t |-> "dict", v |-> NumAbsent, amount |-> amount, unit |-> unit]
InvBare(val) == [t |-> "bare", v |-> val, amount |-> NumAbsent, unit |-> UnitAbsent]

\* a threshold value: a mapping with min and unit, or a bare value v
ThrDict(min, unit) == [t |-> "dict", v |-> NumAbsent, min |-> min, unit |-> unit]
ThrBare(val) == [t |-> "bare", v |-> val, min |-> NumAbsent, unit |-> UnitAbsent]

\* what a call returned: its shape is "mapping, flag" for a (dict, bool)
\* tuple, "mapping" for a dict alone, "raised" when the call raised
ReturnedPair(val, flag) == [shape |-> "mapping, flag", val |-> val, flag |-> flag]
ReturnedMap(val) == [shape |-> "mapping", val |-> val, flag |-> FALSE]
Raised == [shape |-> "raised", val |-> EmptyMap, flag |-> FALSE]
NotCalled == [shape |-> "none", val |-> EmptyMap, flag |-> FALSE]

(* --------------------- normalize_inventory_schema --------------------- *)

\* InvAmountArg reading every bare value as 0
InvAmountArg_BareZero(v) ==
    IF v.t = "dict"
    THEN IF v.amount.t = Absent THEN PyInt(0) ELSE v.amount
    ELSE PyInt(0)

\* v.get("amount", 0) in the mapping branch, v or 0 in the other
InvAmountArg(v) ==
    IF v.t = "dict"
    THEN IF v.amount.t = Absent THEN PyInt(0) ELSE v.amount
    ELSE IF Falsy(v.v) THEN PyInt(0) ELSE v.v

\* (v.get("unit") or "g").lower() in the mapping branch, "g" in the other
InvUnit(v) ==
    IF v.t = "dict"
    THEN IF v.unit.t \in {Absent, "null"} \/ v.unit.v = "" THEN "g"
         ELSE Lower(v.unit.v)
    ELSE "g"

\* float() of a value that is no number, or .lower() of a unit that is one
InvEntryRaises(v) ==
    \/ FloatRaises(InvAmountArg(v))
    \/ v.t = "dict" /\ v.unit.t = "num"

\* inv[k] = {"amount": amt, "unit": unit}
InvEntry(v) == InvDict(Float(InvAmountArg(v)), UnitStr(InvUnit(v)))

\* normalize_inventory_schema setting changed for every entry
normalize_inventory_schema_AlwaysChanged(raw) ==
    IF \E k \in DOMAIN raw : InvEntryRaises(raw[k]) THEN Raised
    ELSE ReturnedPair([k \in DOMAIN raw |-> InvEntry(raw[k])], DOMAIN raw # {})

\* normalize_inventory_schema setting changed whenever an entry is rewritten
normalize_inventory_schema_FlagOnRewrite(raw) ==
    IF \E k \in DOMAIN raw : InvEntryRaises(raw[k]) THEN Raised
    ELSE ReturnedPair([k \in DOMAIN raw |-> InvEntry(raw[k])],
                      \E k \in DOMAIN raw : InvEntry(raw[k]) # raw[k])

\* normalize_inventory_schema(raw): (inv, changed), unless it raises
normalize_inventory_schema(raw) ==
    IF \E k \in DOMAIN raw : InvEntryRaises(raw[k]) THEN Raised
    ELSE ReturnedPair([k \in DOMAIN raw |-> InvEntry(raw[k])],
                      \E k \in DOMAIN raw : raw[k].t # "dict")

(* --------------------- normalize_thresholds_schema -------------------- *)

\* val.get("min", 0)
ThrMin(val) == IF val.min.t = Absent THEN PyInt(0) ELSE val.min

\* unit = val.get("unit", "grams"), replaced when not in UNIT_OPTIONS
ThrUnit(val) ==
    IF val.unit.t = "str" /\ val.unit.v \in UNIT_OPTIONS THEN val.unit.v ELSE "grams"

\* float(val) if val is not None else 0.0
ThrBareMin(val) == IF val.t = "null" THEN PyFloat(0) ELSE Float(val)

ThrEntryRaises(val) == val.t # "dict" /\ val.v.t # "null" /\ FloatRaises(val.v)

\* upgraded[ing]
ThrEntry(val) ==
    IF val.t = "dict" THEN ThrDict(ThrMin(val), UnitStr(ThrUnit(val)))
    ELSE ThrDict(ThrBareMin(val.v), UnitStr("grams"))

\* normalize_thresholds_schema(thresholds): upgraded, unless it raises
normalize_thresholds_schema(thresholds) ==
    IF \E ing \in DOMAIN thresholds : ThrEntryRaises(thresholds[ing]) THEN Raised
    ELSE ReturnedMap([ing \in DOMAIN thresholds |-> ThrEntry(thresholds[ing])])

(* ----------------- raw inventory and threshold files ------------------ *)

RawAmounts == {NumAbsent, NumNull, PyInt(10), PyFloat(10), NumStr(12), PyText}
RawInvUnits ==
    {UnitAbsent, UnitNull, UnitNum, UnitStr("kg"), UnitStr("KG"), UnitStr("cups")}
RawBareValues == {NumNull, PyInt(0), PyInt(250), PyFloat(250), NumStr(12), PyText}

RawInvEntries ==
    {InvDict(a, u) : a \in RawAmounts, u \in RawInvUnits}
    \cup {InvBare(n) : n \in RawBareValues}
\* what the second entry of an inventory file is drawn from
RawInvOthers ==
    {InvBare(PyInt(250)), InvDict(PyInt(10), UnitStr("kg")), InvDict(PyFloat(0), UnitStr("g"))}
RawInventories ==
    {EmptyMap}
    \cup {[k \in {"a"} |-> x] : x \in RawInvEntries}
    \cup {[a |-> x, b |-> y] : x \in RawInvEntries, y \in RawInvOthers}

RawMins == {NumAbsent, NumNull, PyInt(5), PyText}
RawThrUnits == {UnitAbsent, UnitNull, UnitStr("cans"), UnitStr("cups")}
RawThrEntries ==
    {ThrDict(m, u) : m \in RawMins, u \in RawThrUnits}
    \cup {ThrBare(n) : n \in {NumNull, PyInt(250), NumStr(12), PyText}}
RawThresholds ==
    {EmptyMap}
    \cup {[k \in {"a"} |-> x] : x \in RawThrEntries}
    \cup {[a |-> x, b |-> ThrDict(PyInt(5), UnitStr("liters"))] : x \in RawThrEntries}

(* ------------------------- Python dict results ------------------------ *)
(* A recipe-shaped dict built by the code: keys is the set of keys it has; *)
(* a field whose key is missing holds the empty value.                     *)

PyRec(keys, ing, instr, sub) ==
    [keys |-> keys, ingredients |-> ing, instruction |-> instr, subrecipes |-> sub]

EmptyRec == PyRec({}, EmptyMap, <<>>, EmptyMap)

\* a recipe entry of the recipe set, read as the dict it is
EntryAsDict(r) ==
    PyRec({k \in {"ingredients", "instruction", "subrecipes"} : r[k].t # Absent},
          r.ingredients.v, r.instruction.v, r.subrecipes.v)

\* make_scaled_recipe(base_recipe, new_ingredients)
make_scaled_recipe(base_recipe, new_ingredients) ==
    PyRec({"ingredients", "instruction", "subrecipes"},
          new_ingredients, base_recipe.instruction, base_recipe.subrecipes)

\* show_scaled_result(selected_name, scaled_result, recipes_dict): the
\* ingredients, instructions and sub-recipes it renders; base is
\* recipes_dict.get(selected_name, {}) and scaled_result a dict
show_scaled_result(base, scaled_result) ==
    LET rec1 == IF /\ scaled_result.keys # {}
                   /\ "ingredients" \in scaled_result.keys
                   /\ scaled_result.instruction = <<>>
                THEN make_scaled_recipe(base, scaled_result.ingredients)
                ELSE scaled_result
        rec2 == IF rec1.keys = {} THEN base ELSE rec1
    IN  [ingredients |-> rec2.ingredients,
         instruction |-> rec2.instruction,
         subrecipes  |-> rec2.subrecipes]

(* ------------------------------- state -------------------------------- *)

VARIABLES
    norm_in,          \* the mapping last passed to normalize_recipes_schema
    norm_out,         \* the mapping it returned (the same object, rewritten)
    norm_raised,      \* whether that call raised
    norm_calls,       \* how many times it has been applied
    recipes,          \* the recipe set of the session
    selected_name,    \* the recipe picked in the run last rendered
    scale_mode,       \* the scaling method of that run
    density_g_per_ml, \* its inputs; NoNum where the mode does not ask for one
    n_5l,
    n_15,
    anchor_ing,
    available_g,
    target_weight,    \* cg, NoNum for None
    scale_factor,     \* <<numerator, denominator>>
    scaled,           \* ingredient -> cg
    total_scaled,     \* cg
    warnings,         \* the st.warning messages of the run
    shown,            \* what show_scaled_result rendered
    ret,              \* the utility scaler called in the step and what it returned
    inv_in,           \* the mapping last passed to normalize_inventory_schema
    inv_ret,          \* what that call returned
    inv_calls,        \* how many times it has been applied
    thr_in,           \* the same three for normalize_thresholds_schema
    thr_ret,
    thr_calls,
    session_step,     \* st.session_state[step_key], by key_prefix
    session_order,    \* st.session_state[order_key], by key_prefix
    clicked,          \* the walker button whose click caused the run
    walker_view,      \* what the step-by-step block rendered in the run
    next_run,         \* by key_prefix: the Next clicks made in a row right
                      \* after the last Start (NoNum once another button broke it)
    session_keys,     \* the other keys st.session_state holds
    prev_recipe_for_scale,  \* st.session_state.get("prev_recipe_for_scale")
    recipes_exists,   \* os.path.exists(RECIPES_PATH)
    exclude_file,     \* EXCLUDE_FILE on disk
    ingredient_file,  \* INGREDIENT_FILE on disk
    threshold_file,   \* THRESHOLD_FILE on disk
    inv_input,        \* by operator session: the inv_{ing} number inputs
    loaded,           \* by operator session: the inventory the screen last read
    screen,           \* what the last run of a screen did and showed
    lj                \* what the last direct call of load_json was given and returned

(* A step is one execution: a rerun of the batching screen in one scaling  *)
(* mode or after a click on a button of the step-by-step block, one call   *)
(* of a utility scaler on a recipe of the session, one call of a schema    *)
(* normalizer or of load_json, or one run of an inventory screen.  The     *)
(* recipe set, st.session_state and the files on disk live across steps;   *)
(* the other variables are the locals of the step last executed.           *)

normVars == <<norm_in, norm_out, norm_raised, norm_calls>>
runVars == <<selected_name, scale_mode, density_g_per_ml, n_5l, n_15, anchor_ing,
             available_g, target_weight, scale_factor, scaled, total_scaled,
             warnings, shown>>
fileVars == <<inv_in, inv_ret, inv_calls, thr_in, thr_ret, thr_calls>>
walkVars == <<session_step, session_order, clicked, walker_view, next_run>>
sessVars == <<session_keys, prev_recipe_for_scale>>
diskVars == <<recipes_exists, exclude_file, ingredient_file, threshold_file,
              inv_input, loaded, screen, lj>>
vars == <<normVars, recipes, runVars, ret, fileVars, walkVars, sessVars, diskVars>>

NoNum == 0 - 1
NoName == ""

\* no utility scaler was called in the step
NoCall ==
    [fn |-> "none", raised |-> FALSE, result |-> EmptyRec, factor |-> One,
     recipe |-> NoName, target |-> NoNum, available |-> EmptyMap]

\* the step-by-step block was not rendered in the step
NoView == [state |-> "none", ing |-> NoName, back_disabled |-> FALSE]

\* no run of the batching screen was rendered in the step
NoShown == [ingredients |-> EmptyMap, instruction |-> <<>>, subrecipes |-> EmptyMap]
NoRun ==
    /\ selected_name = NoName
    /\ scale_mode = "none"
    /\ density_g_per_ml = NoNum /\ n_5l = NoNum /\ n_15 = NoNum
    /\ anchor_ing = NoName /\ available_g = NoNum
    /\ target_weight = NoNum
    /\ scale_factor = One
    /\ scaled = EmptyMap
    /\ total_scaled = 0
    /\ warnings = {}
    /\ shown = NoShown
    /\ clicked = "none"
    /\ walker_view = NoView
ResetRun ==
    /\ selected_name' = NoName
    /\ scale_mode' = "none"
    /\ density_g_per_ml' = NoNum /\ n_5l' = NoNum /\ n_15' = NoNum
    /\ anchor_ing' = NoName /\ available_g' = NoNum
    /\ target_weight' = NoNum
    /\ scale_factor' = One
    /\ scaled' = EmptyMap
    /\ total_scaled' = 0
    /\ warnings' = {}
    /\ shown' = NoShown
    /\ clicked' = "none"
    /\ walker_view' = NoView

(* --------------------------- operator inputs -------------------------- *)

\* target weights typed into "Target weight (g)" (min_value 1.0), in cg
TargetWeights == {100, 10000, 12345}
\* "Mix density (g/mL)" between 0.5 and 1.5, in hundredths
Densities == {50, DEFAULT_DENSITY}
\* amounts of the anchor ingredient on hand (min_value 0.0), in cg
AvailAmounts == {0, 4060, 25000}
\* amounts on hand in an availability mapping, in cg
StockAmounts == {0, 3000, 4060}
\* "Multiplier" (min_value 0.01), in hundredths
Multipliers == {1, 100, 250}

(* ------------------------- the scaling dispatch ----------------------- *)

\* base_ings = rec.get("ingredients", {})
BaseIngs(name) == recipes[name].ingredients.v

\* original_weight = float(sum(base_ings.values()) or 0.0), in grams
OriginalWeight(name) == Sum(BaseIngs(name))

\* (target_weight / original_weight) if original_weight else 1.0
WeightFactor(tw, ow) == IF ow # 0 THEN Frac(tw, 100 * ow) ELSE One

\* total_l of the combo mode in mL: a non-positive total is reset to 0.0
ComboVolume(n5, n15) ==
    LET total == n5 * VOL_5L_ML + n15 * VOL_1_5GAL_ML
    IN  IF total <= 0 THEN 0 ELSE total

\* the st.warning of the combo mode
ComboWarnings(n5, n15) ==
    IF n5 * VOL_5L_ML + n15 * VOL_1_5GAL_ML <= 0
    THEN {"Set at least one container."} ELSE {}

\* target_weight = total_l * 1000.0 * density_g_per_ml, in cg
VolumeTarget(total_ml, density) == total_ml * density

\* AnchorFactor with the guarded case falling back to 0.0
AnchorFactor_ZeroFallback(avail, base_req) ==
    IF base_req <= 0 THEN <<0, 1>> ELSE Frac(avail, 100 * base_req)

\* the anchor branch: 1.0 when base_req <= 0, else available_g / base_req
AnchorFactor(avail, base_req) ==
    IF base_req <= 0 THEN One ELSE Frac(avail, 100 * base_req)

AnchorWarnings(base_req) ==
    IF base_req <= 0 THEN {"Anchor ingredient has 0 g in the base recipe."} ELSE {}

\* ScaledChoices leaving out the ingredients whose base quantity is 0
ScaledChoices_SkipZero(base, f) ==
    LET D == {i \in DOMAIN base : base[i] # 0}
    IN  {m \in [D -> UNION {Round2(base[i], f) : i \in D}] :
            \A i \in D : m[i] \in Round2(base[i], f)}

\* the values {ing: round(float(qty) * scale_factor, 2)} can take
ScaledChoices(base, f) ==
    {m \in [DOMAIN base -> UNION {Round2(base[i], f) : i \in DOMAIN base}] :
        \A i \in DOMAIN base : m[i] \in Round2(base[i], f)}

(* ------------------------ step-by-step execution ---------------------- *)

\* key_prefix = f"bs_{_slugify(selected_name)}", for the recipe names drawn
key_prefix(name) == IF name = "r1" THEN "bs_r1" ELSE "bs_r2"
WalkKeys == {key_prefix(n) : n \in RecipeNames}

\* values of st.session_state[step_key]: no such key, None, or an int
StepAbsent == [t |-> Absent, v |-> 0]
StepNone   == [t |-> "null", v |-> 0]
StepInt(n) == [t |-> "int", v |-> n]

\* values of st.session_state[order_key]: no such key, or a list
OrderAbsent == [t |-> Absent, v |-> <<>>]
OrderList(l) == [t |-> "list", v |-> l]

\* the order in which a mapping of ingredients lists its keys
IngOrder == <<"a", "b">>
\* list(scaled_for_steps.keys())
KeyList(m) == SelectSeq(IngOrder, LAMBDA i : i \in DOMAIN m)

\* scaled_for_steps = (locals().get("scaled") or rec.get("ingredients", {})) or {}
ScaledForSteps(name, sc) == IF sc # EmptyMap THEN sc ELSE BaseIngs(name)

\* if step_key not in st.session_state: st.session_state[step_key] = None
InitStep(steps, key) ==
    IF steps[key].t = Absent THEN [steps EXCEPT ![key] = StepNone] ELSE steps

\* if order_key is missing or not a list: the keys of scaled_for_steps
InitOrder(orders, key, sfs) ==
    IF orders[key].t # "list" THEN [orders EXCEPT ![key] = OrderList(KeyList(sfs))]
    ELSE orders

\* StartOrder capturing nothing
StartOrder_Empty(orders, key, sfs) == [orders EXCEPT ![key] = OrderList(<<>>)]

\* if start_clicked: st.session_state[order_key] = list(scaled_for_steps.keys())
StartOrder(orders, key, sfs) == [orders EXCEPT ![key] = OrderList(KeyList(sfs))]

\* if start_clicked: st.session_state[step_key] = 0
StartStep(steps, key) == [steps EXCEPT ![key] = StepInt(0)]

\* order[step], as Python indexes a list
ListItem(order, step) ==
    IF step >= 0 /\ step < Len(order) THEN order[step + 1]
    ELSE IF step < 0 /\ 0 - step <= Len(order) THEN order[Len(order) + step + 1]
    ELSE NoName

\* the view with the ingredient shown whatever the cursor
WalkerView_NeverComplete(step, order) ==
    IF step.t # "int" THEN [NoView EXCEPT !.state = "not started"]
    ELSE [state |-> "ingredient", ing |-> ListItem(order, step.v),
          back_disabled |-> step.v = 0]

\* the view with Back enabled at every cursor
WalkerView_BackEnabled(step, order) ==
    IF step.t # "int" THEN [NoView EXCEPT !.state = "not started"]
    ELSE IF step.v < Len(order)
    THEN [state |-> "ingredient", ing |-> ListItem(order, step.v),
          back_disabled |-> FALSE]
    ELSE [NoView EXCEPT !.state = "complete"]

\* if step is not None: the ingredient while step < len(order), with Back,
\* Reset and Next, else "Batch complete" with Start over
WalkerView(step, order) ==
    IF step.t # "int" THEN [NoView EXCEPT !.state = "not started"]
    ELSE IF step.v < Len(order)
    THEN [state |-> "ingredient", ing |-> ListItem(order, step.v),
          back_disabled |-> step.v = 0]
    ELSE [NoView EXCEPT !.state = "complete"]

(* --------------------- per-recipe scaling widget keys ------------------ *)

\* _slugify(s): lower-cased, runs of other characters turned into "_"; the
\* names of RecipeNames are their own slugs, and (s or 'x') of no name is "x"
Slugify(s) == IF s = NoName THEN "x" ELSE s

\* s.startswith(p)
StartsWith(s, p) == Len(s) >= Len(p) /\ SubSeq(s, 1, Len(p)) = p

\* SCOPE = "main"; NS_SCALE = f"scale__{SCOPE}__{_slugify(selected_name)}"
SCOPE == "main"
NS_SCALE(name) == "scale__" \o SCOPE \o "__" \o Slugify(name)

\* k(s) = f"{NS_SCALE}__{s}"
ScaleKey(name, s) == NS_SCALE(name) \o "__" \o s

\* step_key = f"{key_prefix}_step" and order_key = f"{key_prefix}_order"
StepKey(key) == key \o "_step"
OrderKey(key) == key \o "_order"

\* the keys of the recipe selectbox and of the remembered recipe
SelectedRecipeKey == "selected_recipe"
PrevRecipeKey == "prev_recipe_for_scale"

\* the clearing pops every key of the session
Pops_EveryKey(key) == TRUE

\* isinstance(_k, str) and _k.startswith("scale__")
Pops(key) == StartsWith(key, "scale__")

\* the keys of the widgets one run renders for the recipe in the mode: the
\* mode radio and the inputs of the mode's branch
ModeKeys(name, mode) ==
    {ScaleKey(name, "mode")} \cup
    {ScaleKey(name, s) : s \in
        CASE mode = "Target batch weight (g)" -> {"target_weight"}
          [] mode = "Container: 5 L" -> {"density", "n5l"}
          [] mode = "Container: 1.5 gal" -> {"density", "n15"}
          [] mode = "Containers: combo (5 L + 1.5 gal)" ->
                {"density", "n5l_combo", "n15_combo"}
          [] mode = "Scale by ingredient weight" ->
                IF DOMAIN BaseIngs(name) = {} THEN {}
                ELSE {"anchor_ing", "available_anchor"}
          [] mode = "Multiplier x" -> {"multiplier"}
          [] OTHER -> {}}

\* a key that belongs to a widget: the session drops it at the end of a run
\* that did not render the widget
IsWidgetKey(key) == StartsWith(key, "scale__") \/ key = SelectedRecipeKey

\* the cursors and the orders the session holds after the clearing
ClearedSteps(name) ==
    [key \in WalkKeys |->
        IF prev_recipe_for_scale # name /\ Pops(StepKey(key))
        THEN StepAbsent ELSE session_step[key]]
ClearedOrders(name) ==
    [key \in WalkKeys |->
        IF prev_recipe_for_scale # name /\ Pops(OrderKey(key))
        THEN OrderAbsent ELSE session_order[key]]

\* "Clear stale per-recipe scaling keys when switching recipe", then the
\* widgets of the run in the mode chosen, then the end of the run
ClearStaleKeys(name) ==
    LET kept == IF prev_recipe_for_scale # name
                THEN {key \in session_keys : ~Pops(key)} \cup
                     {PrevRecipeKey}
                ELSE session_keys
        rendered == {SelectedRecipeKey} \cup ModeKeys(name, scale_mode')
    IN  /\ session_keys' = {key \in kept : ~IsWidgetKey(key)} \cup rendered
        /\ prev_recipe_for_scale' = name

\* the block as one run of the script executes it for the recipe name, from
\* the cursors and orders the session holds when the run reaches the block;
\* start_clicked is the Start button
WalkerBlock(name, sc, steps, orders, start_clicked) ==
    LET key == key_prefix(name)
        sfs == ScaledForSteps(name, sc)
        steps1 == InitStep(steps, key)
        orders1 == InitOrder(orders, key, sfs)
        steps2 == IF start_clicked THEN StartStep(steps1, key) ELSE steps1
        orders2 == IF start_clicked THEN StartOrder(orders1, key, sfs) ELSE orders1
    IN  /\ session_step' = steps2
        /\ session_order' = orders2
        /\ walker_view' = WalkerView(steps2[key], orders2[key].v)

\* the scaling that stores the scaled quantities in the recipe table
ApplyScaling_InPlace(name, f) ==
    /\ recipes_exists
    /\ \E sc \in ScaledChoices(BaseIngs(name), f) :
        /\ selected_name' = name
        /\ scale_factor' = f
        /\ scaled' = sc
        /\ total_scaled' = Sum(sc)
        /\ shown' = show_scaled_result(EntryAsDict(recipes[name]),
                                       PyRec({"ingredients"}, sc, <<>>, EmptyMap))
        /\ ret' = NoCall
        /\ ClearStaleKeys(name)
        /\ WalkerBlock(name, sc, ClearedSteps(name), ClearedOrders(name), FALSE)
        /\ clicked' = "none"
        /\ recipes' = [recipes EXCEPT ![name].ingredients.v = sc]
        /\ UNCHANGED <<normVars, fileVars, next_run, diskVars>>

\* "Apply scaling", the summary and show_scaled_result, common to all modes,
\* and the step-by-step block that follows them in the script
ApplyScaling(name, f) ==
    /\ recipes_exists
    /\ \E sc \in ScaledChoices(BaseIngs(name), f) :
        /\ selected_name' = name
        /\ scale_factor' = f
        /\ scaled' = sc
        /\ total_scaled' = Sum(sc)
        /\ shown' = show_scaled_result(EntryAsDict(recipes[name]),
                                       PyRec({"ingredients"}, sc, <<>>, EmptyMap))
        /\ ret' = NoCall
        /\ ClearStaleKeys(name)
        /\ WalkerBlock(name, sc, ClearedSteps(name), ClearedOrders(name), FALSE)
        /\ clicked' = "none"
        /\ UNCHANGED <<normVars, recipes, fileVars, next_run, diskVars>>

\* scale_mode == "Target batch weight (g)"
ScaleTargetWeight(name, tw) ==
    /\ scale_mode' = "Target batch weight (g)"
    /\ target_weight' = tw
    /\ density_g_per_ml' = NoNum /\ n_5l' = NoNum /\ n_15' = NoNum
    /\ anchor_ing' = NoName /\ available_g' = NoNum
    /\ warnings' = {}
    /\ ApplyScaling(name, WeightFactor(tw, OriginalWeight(name)))

\* scale_mode == "Container: 5 L"
ScaleContainer5L(name, n, d) ==
    /\ scale_mode' = "Container: 5 L"
    /\ target_weight' = VolumeTarget(n * VOL_5L_ML, d)
    /\ density_g_per_ml' = d /\ n_5l' = n /\ n_15' = NoNum
    /\ anchor_ing' = NoName /\ available_g' = NoNum
    /\ warnings' = {}
    /\ ApplyScaling(name, WeightFactor(VolumeTarget(n * VOL_5L_ML, d),
                                       OriginalWeight(name)))

\* scale_mode == "Container: 1.5 gal"
ScaleContainer15Gal(name, n, d) ==
    /\ scale_mode' = "Container: 1.5 gal"
    /\ target_weight' = VolumeTarget(n * VOL_1_5GAL_ML, d)
    /\ density_g_per_ml' = d /\ n_5l' = NoNum /\ n_15' = n
    /\ anchor_ing' = NoName /\ available_g' = NoNum
    /\ warnings' = {}
    /\ ApplyScaling(name, WeightFactor(VolumeTarget(n * VOL_1_5GAL_ML, d),
                                       OriginalWeight(name)))

\* scale_mode == "Containers: combo (5 L + 1.5 gal)"
ScaleCombo(name, n5, n15, d) ==
    /\ scale_mode' = "Containers: combo (5 L + 1.5 gal)"
    /\ target_weight' = VolumeTarget(ComboVolume(n5, n15), d)
    /\ density_g_per_ml' = d /\ n_5l' = n5 /\ n_15' = n15
    /\ anchor_ing' = NoName /\ available_g' = NoNum
    /\ warnings' = ComboWarnings(n5, n15)
    /\ ApplyScaling(name, WeightFactor(VolumeTarget(ComboVolume(n5, n15), d),
                                       OriginalWeight(name)))

\* scale_mode == "Scale by ingredient weight", recipe without ingredients
ScaleByIngredientEmpty(name) ==
    /\ BaseIngs(name) = EmptyMap
    /\ scale_mode' = "Scale by ingredient weight"
    /\ target_weight' = NoNum
    /\ density_g_per_ml' = NoNum /\ n_5l' = NoNum /\ n_15' = NoNum
    /\ anchor_ing' = NoName /\ available_g' = NoNum
    /\ warnings' = {"This recipe has no ingredients."}
    /\ ApplyScaling(name, One)

\* scale_mode == "Scale by ingredient weight", anchor picked among the keys
ScaleByIngredient(name, anchor, avail) ==
    /\ anchor \in DOMAIN BaseIngs(name)
    /\ scale_mode' = "Scale by ingredient weight"
    /\ target_weight' = NoNum
    /\ density_g_per_ml' = NoNum /\ n_5l' = NoNum /\ n_15' = NoNum
    /\ anchor_ing' = anchor /\ available_g' = avail
    /\ warnings' = AnchorWarnings(BaseIngs(name)[anchor])
    /\ ApplyScaling(name, AnchorFactor(avail, BaseIngs(name)[anchor]))

\* scale_mode == "Multiplier x"
ScaleMultiplier(name, m) ==
    /\ scale_mode' = "Multiplier x"
    /\ target_weight' = NoNum
    /\ density_g_per_ml' = NoNum /\ n_5l' = NoNum /\ n_15' = NoNum
    /\ anchor_ing' = NoName /\ available_g' = NoNum
    /\ warnings' = {}
    /\ ApplyScaling(name, Frac(m, 100))

(* -------------------------- utility scalers --------------------------- *)

\* get_total_weight(recipe): sum(recipe["ingredients"].values()), in grams
get_total_weight(recipe) == Sum(recipe.ingredients.v)

\* scale_factor = target_weight / original_weight divides by zero
TargetScaleRaises(recipe) == get_total_weight(recipe) = 0

\* {k: round(v * scale_factor)} can take these values
AdjustedChoices(base, f) ==
    {m \in [DOMAIN base -> UNION {Round0(base[i], f) : i \in DOMAIN base}] :
        \A i \in DOMAIN base : m[i] \in Round0(base[i], f)}

\* the dict scale_recipe_to_target_weight returns
TargetScaleResult(recipe, adjusted_main) ==
    PyRec({"ingredients", "instruction"}, adjusted_main, recipe.instruction.v, EmptyMap)

\* scale_recipe_to_target_weight(recipe, target_weight), as last defined; the
\* script never calls it, a caller applies it to a recipe of the table
\* outside the runs of the screen
scale_recipe_to_target_weight(name, tw) ==
    /\ scale_mode = "none"
    /\ IF TargetScaleRaises(recipes[name])
       THEN ret' = [NoCall EXCEPT !.fn = "scale_recipe_to_target_weight",
                                  !.raised = TRUE, !.recipe = name, !.target = tw]
       ELSE LET f == Frac(tw, 100 * get_total_weight(recipes[name]))
            IN  \E adj \in AdjustedChoices(recipes[name].ingredients.v, f) :
                    ret' = [NoCall EXCEPT !.fn = "scale_recipe_to_target_weight",
                                          !.recipe = name, !.target = tw,
                                          !.result = TargetScaleResult(recipes[name], adj),
                                          !.factor = f]
    /\ ResetRun
    /\ UNCHANGED <<normVars, recipes, fileVars, session_step, session_order, next_run,
                   sessVars, diskVars>>

\* ratios: amt / base_ingredients[ing] for the ingredients of available that
\* the recipe has with a non-zero base amount
Ratios(base_ingredients, available_ingredients) ==
    {Frac(available_ingredients[ing], 100 * base_ingredients[ing]) :
        ing \in {i \in DOMAIN available_ingredients :
                    i \in DOMAIN base_ingredients /\ base_ingredients[i] # 0}}

\* scale_factor = min(ratios) if ratios else 1
ConstraintFactor(base_ingredients, available_ingredients) ==
    IF Ratios(base_ingredients, available_ingredients) # {}
    THEN FracMin(Ratios(base_ingredients, available_ingredients))
    ELSE One

\* what adjust_recipe_with_constraints returns first: the mapping adjusted
\* itself, a dict that has none of the keys of a recipe
ConstraintResult(recipe, adjusted) == PyRec({}, adjusted, <<>>, EmptyMap)

\* adjust_recipe_with_constraints(recipe, available_ingredients), as last
\* defined; never called by the script either
adjust_recipe_with_constraints(name, avail) ==
    /\ scale_mode = "none"
    /\ LET base == recipes[name].ingredients.v
           f == ConstraintFactor(base, avail)
       IN  \E adj \in AdjustedChoices(base, f) :
               ret' = [NoCall EXCEPT !.fn = "adjust_recipe_with_constraints",
                                     !.recipe = name, !.available = avail,
                                     !.result = ConstraintResult(recipes[name], adj),
                                     !.factor = f]
    /\ ResetRun
    /\ UNCHANGED <<normVars, recipes, fileVars, session_step, session_order, next_run,
                   sessVars, diskVars>>

(* --------------------------- persisted files -------------------------- *)

\* the operator sessions that share the files
Sessions == {1, 2}

\* a file on disk: missing, text that is not JSON, or the document v
FileAbsent(empty) == [t |-> Absent, v |-> empty]
FileMalformed(empty) == [t |-> "malformed", v |-> empty]
FileDoc(v) == [t |-> "doc", v |-> v]

\* os.path.exists(path)
exists(file) == file.t # Absent

\* load_json raising when the file does not exist
load_json_RaisesOnMissing(file, default) ==
    IF exists(file) /\ file.t # "malformed"
    THEN [raised |-> FALSE, defaulted |-> FALSE, val |-> file.v]
    ELSE [raised |-> ~exists(file), defaulted |-> exists(file), val |-> default]

\* load_json(path, default), as last defined: json.load(f) if the path
\* exists, default on json.JSONDecodeError and for a missing file; defaulted
\* tells that the value returned is the default passed
load_json(file, default) ==
    IF exists(file) /\ file.t # "malformed"
    THEN [raised |-> FALSE, defaulted |-> FALSE, val |-> file.v]
    ELSE [raised |-> FALSE, defaulted |-> TRUE, val |-> default]

\* get_all_ingredients(recipes): the ingredient names of the recipes
get_all_ingredients(recs) ==
    UNION {DOMAIN recs[r].ingredients.v : r \in DOMAIN recs}

\* all_ingredients of the inventory screen: those of the recipes and of
\* their subrecipes
all_ingredients(recs) ==
    get_all_ingredients(recs) \cup
    UNION {UNION {DOMAIN recs[r].subrecipes.v[sub].ingredients.v :
                     sub \in DOMAIN recs[r].subrecipes.v} : r \in DOMAIN recs}

\* bulk_units.get(ing, "grams")
bulk_units(ing) ==
    CASE ing = "milk" -> "gallons"
      [] ing = "cream" -> "half gallons"
      [] ing \in {"sugar", "dry milk", "flour", "brown sugar"} -> "50 lb bags"
      [] ing = "butter" -> "cases"
      [] OTHER -> "grams"

\* inventory = {ing: 0 for ing in all_ings}, and thresholds likewise
ZeroInventory(recs) == [ing \in get_all_ingredients(recs) |-> InvBare(PyInt(0))]
ZeroThresholds(recs) == [ing \in get_all_ingredients(recs) |-> ThrBare(PyInt(0))]

\* ensure_inventory_files(recipes): each file as it is afterwards
EnsuredInventory(file, recs) ==
    IF exists(file) THEN file ELSE FileDoc(ZeroInventory(recs))
EnsuredThresholds(file, recs) ==
    IF exists(file) THEN file ELSE FileDoc(ZeroThresholds(recs))

\* no screen has run, and load_json has not been called
NoScreen ==
    [page |-> "none", session |-> 0, button |-> "none", exclude_list |-> {},
     raised |-> "none", reorder_checked |-> FALSE, needs_order |-> {}]
NoLoad == [path |-> "none", raised |-> FALSE, defaulted |-> FALSE]

\* recipes.json is in place, the other files do not exist and no screen
\* has been opened
NoDisk ==
    /\ recipes_exists = TRUE
    /\ exclude_file = FileAbsent({})
    /\ ingredient_file = FileAbsent(EmptyMap)
    /\ threshold_file = FileAbsent(EmptyMap)
    /\ inv_input = [s \in Sessions |-> EmptyMap]
    /\ loaded = [s \in Sessions |-> FileAbsent(EmptyMap)]
    /\ screen = NoScreen
    /\ lj = NoLoad

(* ---------------------------- specifications -------------------------- *)

\* the second entry of a recipe-table document
TableOthers ==
    {RecipeEntry(IngDict([a |-> 100, b |-> 50]), InstrList(Steps), SubDict(TableSub))}

TableDocs == {[r1 |-> x, r2 |-> y] : x \in TableEntries, y \in TableOthers}

\* availability mappings: over ingredient names of the recipes, and the
\* same with an ingredient no recipe has
AvailMaps ==
    Maps(IngNames, StockAmounts)
    \cup {[i \in DOMAIN m \cup {"x"} |-> IF i = "x" THEN 3000 ELSE m[i]] :
            m \in Maps(IngNames, StockAmounts)}


\* neither schema normalizer has been applied, to files that hold nothing
NoFiles ==
    /\ inv_in = EmptyMap /\ inv_ret = NotCalled /\ inv_calls = 0
    /\ thr_in = EmptyMap /\ thr_ret = NotCalled /\ thr_calls = 0

\* a new session: st.session_state holds no key
NoWalk ==
    /\ session_step = [key \in WalkKeys |-> StepAbsent]
    /\ session_order = [key \in WalkKeys |-> OrderAbsent]
    /\ next_run = [key \in WalkKeys |-> NoNum]
    /\ session_keys = {}
    /\ prev_recipe_for_scale = NoName

\* The session once the recipe table is defined and normalized
\* (recipes = normalize_recipes_schema(recipes)), at the start of the first
\* step of a new session.
Init ==
    /\ norm_in \in TableDocs
    /\ norm_out = NormalizeRecipesSchema(norm_in).val
    /\ norm_raised = FALSE
    /\ norm_calls = 1
    /\ recipes = norm_out
    /\ NoRun
    /\ ret = NoCall
    /\ NoFiles
    /\ NoWalk
    /\ NoDisk

Next ==
    \/ \E name \in RecipeNames, tw \in TargetWeights : ScaleTargetWeight(name, tw)
    \/ \E name \in RecipeNames, n \in 1..MaxContainers, d \in Densities :
          ScaleContainer5L(name, n, d)
    \/ \E name \in RecipeNames, n \in 1..MaxContainers, d \in Densities :
          ScaleContainer15Gal(name, n, d)
    \/ \E name \in RecipeNames, n5 \in 0..MaxContainers, n15 \in 0..MaxContainers,
          d \in Densities : ScaleCombo(name, n5, n15, d)
    \/ \E name \in RecipeNames : ScaleByIngredientEmpty(name)
    \/ \E name \in RecipeNames, anchor \in IngNames, avail \in AvailAmounts :
          ScaleByIngredient(name, anchor, avail)
    \/ \E name \in RecipeNames, m \in Multipliers : ScaleMultiplier(name, m)
    \/ \E name \in RecipeNames, tw \in TargetWeights :
          scale_recipe_to_target_weight(name, tw)
    \/ \E name \in RecipeNames, avail \in AvailMaps :
          adjust_recipe_with_constraints(name, avail)

Spec == Init /\ [][Next]_vars

\* A loaded recipe document, well formed or not, before it is normalized.
NormInit ==
    /\ norm_in \in RawDocs
    /\ norm_out = norm_in
    /\ norm_raised = FALSE
    /\ norm_calls = 0
    /\ recipes = norm_in
    /\ NoRun
    /\ ret = NoCall
    /\ NoFiles
    /\ NoWalk
    /\ NoDisk

\* recipes = normalize_recipes_schema(recipes), applied to the document and
\* then to what it returned
Normalize ==
    /\ norm_calls < MaxNormCalls
    /\ ~norm_raised
    /\ LET arg == IF norm_calls = 0 THEN norm_in ELSE norm_out
           res == NormalizeRecipesSchema(arg)
       IN  /\ norm_in' = arg
           /\ norm_out' = res.val
           /\ norm_raised' = res.raised
           /\ recipes' = IF res.raised THEN recipes ELSE res.val
    /\ norm_calls' = norm_calls + 1
    /\ UNCHANGED <<runVars, ret, fileVars, walkVars, sessVars, diskVars>>

NormNext == Normalize

SpecNorm == NormInit /\ [][NormNext]_vars

(* -------------------- the walker's buttons, by run -------------------- *)
(* A click reruns the script: the button's callback first, then the whole  *)
(* script with the widgets as they were, which computes the same scaling   *)
(* again and renders the block from the session the callback left.         *)

\* the run in which start_clicked is True
ClickStart ==
    /\ selected_name # NoName
    /\ WalkerBlock(selected_name, scaled, session_step, session_order, TRUE)
    /\ clicked' = "start"
    /\ next_run' = [next_run EXCEPT ![key_prefix(selected_name)] = 0]
    /\ UNCHANGED <<normVars, recipes, runVars, ret, fileVars, sessVars, diskVars>>

\* max(0, step - 1)
BackStep(step) == IF step - 1 > 0 THEN step - 1 ELSE 0

\* the cursor the Next callback stores, skipping an ingredient
NextStep_Skip(step) == step + 2

\* step + 1
NextStep(step) == step + 1

\* "Next" and its callback, offered with the ingredient
ClickNext ==
    /\ selected_name # NoName
    /\ walker_view.state = "ingredient"
    /\ LET key == key_prefix(selected_name)
       IN  /\ WalkerBlock(selected_name, scaled,
                          [session_step EXCEPT
                              ![key] = StepInt(NextStep(session_step[key].v))],
                          session_order, FALSE)
           /\ next_run' = [next_run EXCEPT
                              ![key] = IF @ = NoNum THEN NoNum ELSE @ + 1]
    /\ clicked' = "next"
    /\ UNCHANGED <<normVars, recipes, runVars, ret, fileVars, sessVars, diskVars>>

\* "Back" and its callback, offered with the ingredient unless disabled
ClickBack ==
    /\ selected_name # NoName
    /\ walker_view.state = "ingredient"
    /\ ~walker_view.back_disabled
    /\ LET key == key_prefix(selected_name)
       IN  /\ WalkerBlock(selected_name, scaled,
                          [session_step EXCEPT
                              ![key] = StepInt(BackStep(session_step[key].v))],
                          session_order, FALSE)
           /\ next_run' = [next_run EXCEPT ![key] = NoNum]
    /\ clicked' = "back"
    /\ UNCHANGED <<normVars, recipes, runVars, ret, fileVars, sessVars, diskVars>>

\* "Reset" and its callback, offered with the ingredient
ClickReset ==
    /\ selected_name # NoName
    /\ walker_view.state = "ingredient"
    /\ LET key == key_prefix(selected_name)
       IN  /\ WalkerBlock(selected_name, scaled,
                          [session_step EXCEPT ![key] = StepNone], session_order, FALSE)
           /\ next_run' = [next_run EXCEPT ![key] = NoNum]
    /\ clicked' = "reset"
    /\ UNCHANGED <<normVars, recipes, runVars, ret, fileVars, sessVars, diskVars>>

\* "Start over" with the callback of Reset
ClickStartOver_AsReset ==
    /\ selected_name # NoName
    /\ walker_view.state = "complete"
    /\ LET key == key_prefix(selected_name)
       IN  /\ WalkerBlock(selected_name, scaled,
                          [session_step EXCEPT ![key] = StepNone], session_order, FALSE)
           /\ next_run' = [next_run EXCEPT ![key] = NoNum]
    /\ clicked' = "start over"
    /\ UNCHANGED <<normVars, recipes, runVars, ret, fileVars, sessVars, diskVars>>

\* "Start over" and its callback, offered with "Batch complete"
ClickStartOver ==
    /\ selected_name # NoName
    /\ walker_view.state = "complete"
    /\ LET key == key_prefix(selected_name)
       IN  /\ WalkerBlock(selected_name, scaled,
                          [session_step EXCEPT ![key] = StepInt(0)], session_order, FALSE)
           /\ next_run' = [next_run EXCEPT ![key] = NoNum]
    /\ clicked' = "start over"
    /\ UNCHANGED <<normVars, recipes, runVars, ret, fileVars, sessVars, diskVars>>

\* recipe tables of the walks: the first recipe with two, one or no
\* ingredient, the second as in TableOthers
WalkEntries ==
    {RecipeEntry(IngDict(m), InstrAbsent, SubAbsent) :
        m \in {[a |-> 100, b |-> 50], [b |-> 50], EmptyMap}}
WalkDocs == {[r1 |-> x, r2 |-> y] : x \in WalkEntries, y \in TableOthers}
WalkMultipliers == {100, 250}

WalkInit ==
    /\ norm_in \in WalkDocs
    /\ norm_out = NormalizeRecipesSchema(norm_in).val
    /\ norm_raised = FALSE
    /\ norm_calls = 1
    /\ recipes = norm_out
    /\ NoRun
    /\ ret = NoCall
    /\ NoFiles
    /\ NoWalk
    /\ NoDisk

WalkNext ==
    \/ \E name \in RecipeNames, m \in WalkMultipliers : ScaleMultiplier(name, m)
    \/ ClickStart
    \/ ClickNext
    \/ ClickBack
    \/ ClickReset
    \/ ClickStartOver

SpecWalk == WalkInit /\ [][WalkNext]_vars

(* ------------- the schema normalizers applied to raw files ------------ *)

\* inv, changed = normalize_inventory_schema(raw_inv), applied to the file's
\* mapping and then to the mapping it returned
NormalizeInventory ==
    /\ inv_calls < MaxNormCalls
    /\ inv_ret.shape # "raised"
    /\ LET arg == IF inv_calls = 0 THEN inv_in ELSE inv_ret.val
       IN  /\ inv_in' = arg
           /\ inv_ret' = normalize_inventory_schema(arg)
    /\ inv_calls' = inv_calls + 1
    /\ UNCHANGED <<normVars, recipes, runVars, ret, thr_in, thr_ret, thr_calls, walkVars,
                   sessVars, diskVars>>

\* thresholds = normalize_thresholds_schema(thresholds_raw), likewise
NormalizeThresholds ==
    /\ thr_calls < MaxNormCalls
    /\ thr_ret.shape # "raised"
    /\ LET arg == IF thr_calls = 0 THEN thr_in ELSE thr_ret.val
       IN  /\ thr_in' = arg
           /\ thr_ret' = normalize_thresholds_schema(arg)
    /\ thr_calls' = thr_calls + 1
    /\ UNCHANGED <<normVars, recipes, runVars, ret, inv_in, inv_ret, inv_calls, walkVars,
                   sessVars, diskVars>>

\* The loaded inventory and threshold files, before they are normalized.
SchemaInit ==
    /\ norm_in \in {[r1 |-> x, r2 |-> y] : x \in TableOthers, y \in TableOthers}
    /\ norm_out = NormalizeRecipesSchema(norm_in).val
    /\ norm_raised = FALSE
    /\ norm_calls = 1
    /\ recipes = norm_out
    /\ NoRun
    /\ ret = NoCall
    /\ inv_in \in RawInventories /\ inv_ret = NotCalled /\ inv_calls = 0
    /\ thr_in \in RawThresholds /\ thr_ret = NotCalled /\ thr_calls = 0
    /\ NoWalk
    /\ NoDisk

SchemaNext ==
    \/ NormalizeInventory
    \/ NormalizeThresholds

SpecSchema == SchemaInit /\ [][SchemaNext]_vars

(* ----------------- the inventory screens and the files ---------------- *)

\* the value of the inv_{ing} input of a session: what the session holds
\* for it, or 0.0 (min_value) when the input has not been rendered
QtyInput(s, ing) ==
    IF ing \in DOMAIN inv_input[s] THEN inv_input[s][ing] ELSE 0

\* "Current Ingredient Inventory": what reading and formatting the
\* inventory file raises, "none" when the block runs through or is skipped
DisplayRaises(inv, exclude_list) ==
    IF ~exists(inv) THEN "none"
    ELSE IF inv.t = "malformed" THEN "JSONDecodeError"
    ELSE IF \E ing \in DOMAIN inv.v \ exclude_list : inv.v[ing].t # "dict"
    THEN "TypeError"
    ELSE IF \E ing \in DOMAIN inv.v \ exclude_list :
               inv.v[ing].amount.t = Absent \/ inv.v[ing].unit.t = Absent
    THEN "KeyError"
    ELSE "none"

\* the ingredients the comprehension of needs_order evaluates its last
\* condition for
Compared(inv, thr, exclude_list) ==
    {ing \in DOMAIN thr.v : ing \notin exclude_list /\ ing \in DOMAIN inv.v}

\* "Ingredients Needing Reorder": what the block raises
ReorderRaises(inv, thr, exclude_list) ==
    IF ~exists(thr) THEN "none"
    ELSE IF ~exists(inv) THEN "FileNotFoundError"
    ELSE IF inv.t = "malformed" \/ thr.t = "malformed" THEN "JSONDecodeError"
    ELSE IF \E ing \in Compared(inv, thr, exclude_list) :
               \/ inv.v[ing].t # "dict"
               \/ inv.v[ing].amount.t \notin {"int", "float"}
               \/ thr.v[ing].t = "dict"
               \/ thr.v[ing].v.t \notin {"int", "float"}
    THEN "TypeError"
    ELSE "none"

\* needs_order: inventory[ing]["amount"] < thresholds[ing]
NeedsOrder(inv, thr, exclude_list) ==
    {ing \in Compared(inv, thr, exclude_list) :
        inv.v[ing].amount.v < thr.v[ing].v.v}

\* ingredient_inventory_section(), as last defined, run in session s: the
\* operator has picked exclude_list, typed the amounts of typed, set every
\* Min input to threshold and clicked button, if any
InventoryRun(s, exclude_list, typed, threshold, button) ==
    /\ recipes_exists
    /\ exclude_list \subseteq all_ingredients(recipes)
    /\ DOMAIN typed \subseteq all_ingredients(recipes) \ exclude_list
    /\ lj' = NoLoad
    /\ IF exclude_file.t = "malformed"
       THEN \* json.load(f) of the exclusion list raises before any widget
            /\ exclude_list = {} /\ typed = EmptyMap /\ button = "none"
            /\ screen' = [NoScreen EXCEPT !.page = "Ingredient Inventory",
                                          !.session = s,
                                          !.raised = "JSONDecodeError"]
            /\ inv_input' = [inv_input EXCEPT ![s] = EmptyMap]
            /\ UNCHANGED <<exclude_file, ingredient_file, threshold_file, loaded>>
       ELSE LET rendered == all_ingredients(recipes) \ exclude_list
                qty == [ing \in rendered |->
                           IF ing \in DOMAIN typed THEN typed[ing]
                           ELSE QtyInput(s, ing)]
                ingredient_inventory ==
                    [ing \in rendered |->
                        InvDict(PyFloat(qty[ing]), UnitStr(bulk_units(ing)))]
                min_thresholds == [ing \in rendered |-> ThrBare(PyFloat(threshold))]
                save == button = "Save Ingredient Inventory"
                inv == IF save THEN FileDoc(ingredient_inventory) ELSE ingredient_file
                thr == IF save THEN FileDoc(min_thresholds) ELSE threshold_file
                display == DisplayRaises(inv, exclude_list)
                checked == ReorderRaises(inv, thr, exclude_list)
                ok == display = "none" /\ checked = "none" /\ exists(thr)
            IN  /\ exclude_file' = IF button = "Save Exclusion List"
                                   THEN FileDoc(exclude_list) ELSE exclude_file
                /\ ingredient_file' = inv
                /\ threshold_file' = thr
                /\ inv_input' = [inv_input EXCEPT ![s] = qty]
                /\ loaded' = [loaded EXCEPT ![s] = inv]
                /\ screen' =
                      [page |-> "Ingredient Inventory", session |-> s,
                       button |-> button, exclude_list |-> exclude_list,
                       raised |-> IF display # "none" THEN display ELSE checked,
                       reorder_checked |-> ok,
                       needs_order |-> IF ok THEN NeedsOrder(inv, thr, exclude_list)
                                       ELSE {}]
    /\ ResetRun
    /\ ret' = NoCall
    /\ UNCHANGED <<normVars, recipes, fileVars, session_step, session_order,
                   next_run, sessVars, recipes_exists>>

\* set_min_inventory_section(recipes), as last defined: the operator has set
\* every input to threshold and clicked button, if any
SetMinRun(s, threshold, button) ==
    /\ recipes_exists
    /\ lj' = NoLoad
    /\ LET inv == EnsuredInventory(ingredient_file, recipes)
           thr == EnsuredThresholds(threshold_file, recipes)
           current_thresholds == load_json(thr, ZeroThresholds(recipes)).val
           all_ings == get_all_ingredients(recipes)
           \* value=float(current_thresholds.get(ing, 0))
           raises == \E ing \in all_ings \cap DOMAIN current_thresholds :
                         \/ current_thresholds[ing].t = "dict"
                         \/ FloatRaises(current_thresholds[ing].v)
           updated == [ing \in all_ings |-> ThrBare(PyFloat(threshold))]
       IN  /\ ingredient_file' = inv
           /\ IF raises
              THEN /\ button = "none"
                   /\ threshold_file' = thr
              ELSE threshold_file' =
                      IF button = "Save minimum thresholds" THEN FileDoc(updated)
                      ELSE thr
           /\ screen' = [NoScreen EXCEPT !.page = "Set Min Inventory",
                                         !.session = s,
                                         !.button = button,
                                         !.raised = IF raises THEN "TypeError"
                                                    ELSE "none"]
    /\ ResetRun
    /\ ret' = NoCall
    /\ UNCHANGED <<normVars, recipes, fileVars, session_step, session_order,
                   next_run, sessVars, recipes_exists, exclude_file, inv_input,
                   loaded>>

\* the file kept under each path, and the default its loader passes
Paths == {"EXCLUDE_FILE", "INGREDIENT_FILE", "THRESHOLD_FILE"}
FileAt(path) ==
    CASE path = "EXCLUDE_FILE" -> exclude_file
      [] path = "INGREDIENT_FILE" -> ingredient_file
      [] path = "THRESHOLD_FILE" -> threshold_file
DefaultAt(path) == IF path = "EXCLUDE_FILE" THEN {} ELSE EmptyMap

\* load_json(path, default), called on its own
CallLoadJson(path) ==
    /\ recipes_exists
    /\ LET got == load_json(FileAt(path), DefaultAt(path))
       IN  lj' = [path |-> path, raised |-> got.raised, defaulted |-> got.defaulted]
    /\ screen' = [NoScreen EXCEPT !.page = "load_json"]
    /\ ResetRun
    /\ ret' = NoCall
    /\ UNCHANGED <<normVars, recipes, fileVars, session_step, session_order,
                   next_run, sessVars, recipes_exists, exclude_file,
                   ingredient_file, threshold_file, inv_input, loaded>>

\* a run of the script without recipes.json: st.error("Missing recipes
\* file: ..."), st.info and st.stop()
MissingRecipesRun ==
    /\ ~recipes_exists
    /\ screen' = [NoScreen EXCEPT !.page = "Missing recipes file"]
    /\ lj' = NoLoad
    /\ ResetRun
    /\ ret' = NoCall
    /\ UNCHANGED <<normVars, recipes, fileVars, session_step, session_order,
                   next_run, sessVars, recipes_exists, exclude_file,
                   ingredient_file, threshold_file, inv_input, loaded>>

\* the recipe table of the inventory specifications: a in r1 and in its
\* sauce, b in r2
InventoryDocs ==
    {[r1 |-> RecipeEntry(IngDict([a |-> 100]), InstrList(Steps), SubDict(TableSub)),
      r2 |-> RecipeEntry(IngDict([b |-> 50]), InstrAbsent, SubAbsent)]}

\* what the operator types into an amount input and sets the Min inputs to
TypedAmounts == {10, 30}
ThresholdInputs == {0, 10}
ExcludeChoices == {{}, {"a"}}

\* files found on disk when the session starts
StoredInventory == [ing \in IngNames |-> InvDict(PyFloat(10), UnitStr("grams"))]
StoredThresholds == [ing \in IngNames |-> ThrBare(PyFloat(10))]
ExcludeFiles == {FileAbsent({}), FileMalformed({}), FileDoc({"a"})}
IngredientFiles ==
    {FileAbsent(EmptyMap), FileMalformed(EmptyMap), FileDoc(StoredInventory)}
ThresholdFiles ==
    {FileAbsent(EmptyMap), FileMalformed(EmptyMap), FileDoc(StoredThresholds)}

\* the table is normalized, no screen has run yet and the files are any of
\* those above
FilesInit ==
    /\ norm_in \in InventoryDocs
    /\ norm_out = NormalizeRecipesSchema(norm_in).val
    /\ norm_raised = FALSE
    /\ norm_calls = 1
    /\ recipes = norm_out
    /\ NoRun
    /\ ret = NoCall
    /\ NoFiles
    /\ NoWalk
    /\ recipes_exists = TRUE
    /\ exclude_file \in ExcludeFiles
    /\ ingredient_file \in IngredientFiles
    /\ threshold_file \in ThresholdFiles
    /\ inv_input = [s \in Sessions |-> EmptyMap]
    /\ loaded = [s \in Sessions |-> FileAbsent(EmptyMap)]
    /\ screen = NoScreen
    /\ lj = NoLoad

\* one operator on the two inventory screens
FilesNext ==
    \/ \E exclude_list \in ExcludeChoices, typed \in Maps(IngNames, TypedAmounts),
          threshold \in ThresholdInputs,
          button \in {"none", "Save Exclusion List", "Save Ingredient Inventory"} :
          InventoryRun(1, exclude_list, typed, threshold, button)
    \/ \E threshold \in ThresholdInputs, button \in {"none", "Save minimum thresholds"} :
          SetMinRun(1, threshold, button)

SpecFiles == FilesInit /\ [][FilesNext]_vars

\* two operators on the inventory screen, the first working on a and the
\* second on b, over an inventory and thresholds saved earlier
TwoInit ==
    /\ FilesInit
    /\ exclude_file = FileAbsent({})
    /\ ingredient_file = FileDoc(StoredInventory)
    /\ threshold_file = FileDoc(StoredThresholds)

TwoNext ==
    \/ \E typed \in Maps({"a"}, TypedAmounts),
          button \in {"none", "Save Ingredient Inventory"} :
          InventoryRun(1, {}, typed, 10, button)
    \/ \E typed \in Maps({"b"}, TypedAmounts),
          button \in {"none", "Save Ingredient Inventory"} :
          InventoryRun(2, {}, typed, 10, button)

SpecTwo == TwoInit /\ [][TwoNext]_vars

\* the start of a session with or without recipes.json: without it no run
\* gets to the table
LoadInit ==
    /\ recipes_exists \in BOOLEAN
    /\ norm_in \in WalkDocs
    /\ norm_raised = FALSE
    /\ IF recipes_exists
       THEN /\ norm_out = NormalizeRecipesSchema(norm_in).val
            /\ norm_calls = 1
       ELSE /\ norm_out = EmptyMap
            /\ norm_calls = 0
    /\ recipes = norm_out
    /\ NoRun
    /\ ret = NoCall
    /\ NoFiles
    /\ NoWalk
    /\ exclude_file \in ExcludeFiles
    /\ ingredient_file \in IngredientFiles
    /\ threshold_file \in ThresholdFiles
    /\ inv_input = [s \in Sessions |-> EmptyMap]
    /\ loaded = [s \in Sessions |-> FileAbsent(EmptyMap)]
    /\ screen = NoScreen
    /\ lj = NoLoad

LoadNext ==
    \/ MissingRecipesRun
    \/ \E name \in RecipeNames, m \in WalkMultipliers : ScaleMultiplier(name, m)
    \/ \E path \in Paths : CallLoadJson(path)

SpecLoad == LoadInit /\ [][LoadNext]_vars

(* ------------------------------- claims ------------------------------- *)

TargetMode == "Target batch weight (g)"
ContainerModes ==
    {"Container: 5 L", "Container: 1.5 gal", "Containers: combo (5 L + 1.5 gal)"}
ComboMode == "Containers: combo (5 L + 1.5 gal)"
AnchorMode == "Scale by ingredient weight"

Ran == scale_mode # "none"
Returned == ret.fn # "none" /\ ~ret.raised
RetBase == recipes[ret.recipe].ingredients.v

\* y is an integer nearest to n / d (d > 0)
Nearest(y, n, d) ==
    \/ y = n \div d /\ 2 * (n % d) <= d
    \/ y = (n \div d) + 1 /\ 2 * (n % d) >= d

\* x (cg) is qty (g) times f rounded to the hundredth of a gram
IsHundredthOf(x, qty, f) == Nearest(x, Times(100 * qty, f)[1], Times(100 * qty, f)[2])

\* x (cg) is within half a gram of qty (g) times f
NearProduct(x, qty, f) ==
    LET n == Times(100 * qty, f)[1]
        d == Times(100 * qty, f)[2]
    IN  /\ x - 50 <= n \div d
        /\ \/ n \div d < x + 50
           \/ n \div d = x + 50 /\ n % d = 0

\* C1: in target-weight mode, for a recipe of positive original weight, the
\* rounded sum of the scaled quantities differs from the target weight by at
\* most 0.02 g times the number of ingredients.
C1_TargetSumWithinTolerance ==
    (scale_mode = TargetMode /\ OriginalWeight(selected_name) > 0)
        => Abs(total_scaled - target_weight)
              <= 2 * Cardinality(DOMAIN BaseIngs(selected_name))

\* C1 witness: a target-weight run on a recipe of positive weight in which
\* rounding moved the total off the target.
C1_Witness ==
    /\ scale_mode = TargetMode
    /\ OriginalWeight(selected_name) > 0
    /\ total_scaled # target_weight

\* C2 (as claimed): adjust_recipe_with_constraints scales by the minimum of
\* available/base over the ingredients in both mappings with non-zero base
\* (1 when there is none), and no such ingredient is scaled past the amount
\* available.
C2_ConstrainedWithinStock ==
    ret.fn = "adjust_recipe_with_constraints" =>
        LET R == Ratios(RetBase, ret.available)
        IN  /\ R = {} => ret.factor = One
            /\ R # {} => ret.factor \in R /\ \A r \in R : FracLeq(ret.factor, r)
            /\ \A i \in DOMAIN ret.available \cap DOMAIN RetBase :
                   RetBase[i] # 0 => ret.result.ingredients[i] <= ret.available[i]

\* C3 (as claimed): a combo run with no container at all shows a warning,
\* has scale factor 1.0 and leaves every quantity at its base value.
C3_ComboZeroVolumeNotScaled ==
    (scale_mode = ComboMode /\ n_5l = 0 /\ n_15 = 0) =>
        /\ warnings # {}
        /\ scale_factor = One
        /\ scaled = [i \in DOMAIN BaseIngs(selected_name) |->
                        100 * BaseIngs(selected_name)[i]]

\* C4 (as claimed): scaling to a target weight a recipe whose quantities sum
\* to 0 gives scale factor 1.0 without an error, in the target-weight and
\* container modes and in scale_recipe_to_target_weight.
C4_ZeroWeightFactorOne ==
    /\ (scale_mode \in {TargetMode} \cup ContainerModes
            /\ OriginalWeight(selected_name) = 0) => scale_factor = One
    /\ (ret.fn = "scale_recipe_to_target_weight"
            /\ get_total_weight(recipes[ret.recipe]) = 0)
          => ~ret.raised /\ ret.factor = One

\* C5: in anchor mode the scale factor is available / base amount of the
\* anchor when that amount is positive, and 1.0 when it is zero; base
\* {a: 100, b: 50} with 250 g of a on hand gives 2.5 and {a: 250.0, b: 125.0}.
C5_AnchorFactor ==
    (scale_mode = AnchorMode /\ anchor_ing # NoName) =>
        LET base == BaseIngs(selected_name)
        IN  /\ base[anchor_ing] > 0 =>
                  scale_factor[1] * 100 * base[anchor_ing]
                      = available_g * scale_factor[2]
            /\ base[anchor_ing] = 0 => scale_factor = One
            /\ (base = [a |-> 100, b |-> 50] /\ anchor_ing = "a"
                    /\ available_g = 25000)
                  => scale_factor = <<5, 2>> /\ scaled = [a |-> 25000, b |-> 12500]

\* C5 witness: the anchor run of the example, 250 g of a on hand for the
\* recipe {a: 100, b: 50}.
C5_Witness ==
    /\ scale_mode = AnchorMode
    /\ BaseIngs(selected_name) = [a |-> 100, b |-> 50]
    /\ anchor_ing = "a"
    /\ available_g = 25000

\* C6: whatever the scaling mode, the scaled mapping has exactly the base
\* recipe's ingredient names, and every scaled quantity is the base quantity
\* times the one reported scale factor, up to rounding.
C6_SameKeysSingleFactor ==
    /\ Ran =>
          /\ DOMAIN scaled = DOMAIN BaseIngs(selected_name)
          /\ \A i \in DOMAIN scaled :
                 NearProduct(scaled[i], BaseIngs(selected_name)[i], scale_factor)
    /\ Returned =>
          /\ DOMAIN ret.result.ingredients = DOMAIN RetBase
          /\ \A i \in DOMAIN RetBase :
                 NearProduct(ret.result.ingredients[i], RetBase[i], ret.factor)

\* C6 witness: a run that scaled a two-ingredient recipe, one ingredient of
\* base quantity 0 and one scaled to a positive quantity, by a factor other
\* than 1.
C6_Witness ==
    /\ Ran
    /\ scale_factor # One
    /\ Cardinality(DOMAIN scaled) = 2
    /\ \E i \in DOMAIN scaled : BaseIngs(selected_name)[i] = 0
    /\ \E j \in DOMAIN scaled : scaled[j] > 0

\* C7 (as claimed): every scaling branch, the utility scalers included,
\* rounds each scaled quantity to the hundredth of a gram.
C7_RoundedToHundredths ==
    /\ Ran => \A i \in DOMAIN scaled :
                 IsHundredthOf(scaled[i], BaseIngs(selected_name)[i], scale_factor)
    /\ Returned => \A i \in DOMAIN ret.result.ingredients :
                 IsHundredthOf(ret.result.ingredients[i], RetBase[i], ret.factor)

\* C8 (as claimed): the result of scaling carries the base recipe's
\* instruction and subrecipes unchanged, in what show_scaled_result renders
\* and in what the utility scalers return.
C8_InstructionSubrecipesCarried ==
    /\ Ran =>
          /\ shown.instruction = recipes[selected_name].instruction.v
          /\ shown.subrecipes = recipes[selected_name].subrecipes.v
    /\ Returned =>
          /\ {"instruction", "subrecipes"} \subseteq ret.result.keys
          /\ ret.result.instruction = recipes[ret.recipe].instruction.v
          /\ ret.result.subrecipes = recipes[ret.recipe].subrecipes.v

\* an entry with the three keys, each of its type
WellTyped(e) ==
    /\ e.t = "dict"
    /\ e.ingredients.t = "dict"
    /\ e.instruction.t = "list"
    /\ e.subrecipes.t = "dict"

\* C9 (as claimed): every entry of the mapping normalize_recipes_schema
\* returns has ingredients (a mapping), instruction (a sequence) and
\* subrecipes (a mapping), whatever the input held.
C9_NormalizedEntriesWellTyped ==
    (norm_calls >= 1 /\ ~norm_raised) =>
        \A n \in DOMAIN norm_out : WellTyped(norm_out[n])

\* C10 (as claimed): normalize_recipes_schema raises for no input mapping;
\* a recipe that is a mapping comes out with well-typed fields, and so does
\* each of its sub-recipes that is a mapping.
C10_NormalizeNeverRaises ==
    norm_calls >= 1 =>
        /\ ~norm_raised
        /\ \A n \in DOMAIN norm_out :
              norm_in[n].t = "dict" =>
                  /\ WellTyped(norm_out[n])
                  /\ \A k \in DOMAIN norm_out[n].subrecipes.v :
                        LET e == norm_out[n].subrecipes.v[k]
                        IN  e.t = "dict" =>
                               e.ingredients.t = "dict" /\ e.instruction.t = "list"

\* C11: normalize_recipes_schema is idempotent: applied to a mapping it
\* returned, it returns a mapping equal to it.
C11_NormalizeIdempotent ==
    (norm_calls = 2 /\ ~norm_raised) => norm_out = norm_in

\* C11 witness: the second application returned, on a mapping holding an
\* entry with steps and a sub-recipe and an entry that is not a mapping.
C11_Witness ==
    /\ norm_calls = 2
    /\ ~norm_raised
    /\ \E n \in DOMAIN norm_out :
          /\ norm_out[n].t = "dict"
          /\ norm_out[n].instruction.v # <<>>
          /\ norm_out[n].subrecipes.v # EmptyMap
    /\ \E n \in DOMAIN norm_out : norm_out[n].t # "dict"

InvReturned == inv_calls >= 1 /\ inv_ret.shape # "raised"
ThrReturned == thr_calls >= 1 /\ thr_ret.shape # "raised"
IsNumber(x) == x.t \in {"int", "float"}

\* C12: normalize_inventory_schema applied to a mapping it returned returns
\* an identical mapping and changed = False.
C12_InventoryRoundTrip ==
    (inv_calls >= 2 /\ inv_ret.shape # "raised") =>
        /\ inv_ret.shape = "mapping, flag"
        /\ inv_ret.val = inv_in
        /\ inv_ret.flag = FALSE

\* C12 witness: the second application returned, on a two-entry mapping
\* with a unit other than the default.
C12_Witness ==
    /\ inv_calls >= 2
    /\ inv_ret.shape = "mapping, flag"
    /\ DOMAIN inv_in = {"a", "b"}
    /\ \E k \in DOMAIN inv_in : inv_in[k].unit.v = "kg"

\* an inventory entry of the current shape: a number and a unit of the
\* vocabulary
CurrentShape(e) ==
    e.t = "dict" /\ IsNumber(e.amount) /\ e.unit.t = "str" /\ e.unit.v \in UNIT_FACTORS

\* C13: normalize_inventory_schema turns a bare number n into
\* {amount: float n, unit: "g"} and null into {amount: 0.0, unit: "g"} and
\* then reports changed = True; a mapping of current-shape entries only
\* comes back with the same amounts and units and changed = False.
C13_InventoryLegacyMigration ==
    (inv_calls = 1 /\ inv_ret.shape # "raised") =>
        /\ \A k \in DOMAIN inv_in :
              (inv_in[k].t = "bare" /\ (IsNumber(inv_in[k].v) \/ inv_in[k].v.t = "null"))
                 => /\ inv_ret.val[k] =
                          InvDict(PyFloat(IF inv_in[k].v.t = "null" THEN 0 ELSE inv_in[k].v.v),
                                  UnitStr("g"))
                    /\ inv_ret.flag = TRUE
        /\ (\A k \in DOMAIN inv_in : CurrentShape(inv_in[k]))
              => /\ inv_ret.flag = FALSE
                 /\ DOMAIN inv_ret.val = DOMAIN inv_in
                 /\ \A k \in DOMAIN inv_in :
                       /\ inv_ret.val[k].t = "dict"
                       /\ IsNumber(inv_ret.val[k].amount)
                       /\ inv_ret.val[k].amount.v = inv_in[k].amount.v
                       /\ inv_ret.val[k].unit = inv_in[k].unit

\* C13 witness: the file {a: 250, b: {amount: 10, unit: "kg"}} normalized.
C13_Witness ==
    /\ inv_calls = 1
    /\ inv_ret.shape = "mapping, flag"
    /\ inv_in = [a |-> InvBare(PyInt(250)), b |-> InvDict(PyInt(10), UnitStr("kg"))]

\* C14 (as claimed): normalize_thresholds_schema returns entries with
\* exactly min and unit, a bare number n as {min: float n, unit: "grams"},
\* null as {min: 0.0, unit: "grams"}, and with them a boolean flag telling
\* whether a legacy entry was upgraded.
C14_ThresholdsShapeAndFlag ==
    (thr_calls = 1 /\ thr_ret.shape # "raised") =>
        /\ \A k \in DOMAIN thr_in :
              /\ thr_ret.val[k].t = "dict"
              /\ thr_in[k].t = "bare" =>
                    thr_ret.val[k] =
                        ThrDict(PyFloat(IF thr_in[k].v.t = "null" THEN 0 ELSE thr_in[k].v.v),
                                UnitStr("grams"))
        /\ thr_ret.shape = "mapping, flag"
        /\ thr_ret.flag = (\E k \in DOMAIN thr_in : thr_in[k].t = "bare")

\* C15 (as claimed): every unit in the output of either normalizer belongs
\* to the normalizer's vocabulary, a unit outside it being replaced by the
\* default unit.
C15_OutputUnitsInVocabulary ==
    /\ InvReturned =>
          \A k \in DOMAIN inv_ret.val :
              /\ inv_ret.val[k].unit.t = "str"
              /\ inv_ret.val[k].unit.v \in UNIT_FACTORS
    /\ ThrReturned =>
          \A k \in DOMAIN thr_ret.val :
              /\ thr_ret.val[k].unit.t = "str"
              /\ thr_ret.val[k].unit.v \in UNIT_OPTIONS

\* C16 (as claimed): a file of mapping entries whose amount (inventory) or
\* min (thresholds) is absent or null does not make the normalizer raise,
\* and each such entry comes out with the number 0 in that field.
C16_MissingValueIsZero ==
    /\ (/\ inv_calls = 1
        /\ \A k \in DOMAIN inv_in :
              /\ inv_in[k].t = "dict"
              /\ inv_in[k].amount.t \in {Absent, "null"}
              /\ inv_in[k].unit.t # "num")
          => /\ inv_ret.shape # "raised"
             /\ \A k \in DOMAIN inv_in :
                   IsNumber(inv_ret.val[k].amount) /\ inv_ret.val[k].amount.v = 0
    /\ (/\ thr_calls = 1
        /\ \A k \in DOMAIN thr_in :
              thr_in[k].t = "dict" /\ thr_in[k].min.t \in {Absent, "null"})
          => /\ thr_ret.shape # "raised"
             /\ \A k \in DOMAIN thr_in :
                   thr_in[k].min.t \in {Absent, "null"} =>
                       IsNumber(thr_ret.val[k].min) /\ thr_ret.val[k].min.v = 0

\* the keys, cursor and captured order of the recipe on screen
ShownKey == key_prefix(selected_name)
Cursor == session_step[ShownKey]
Order == session_order[ShownKey].v
Rendered == selected_name # NoName

\* C17: the cursor of every walk is null (or not yet stored) or an integer
\* from 0 to the length of the captured order; the block shows the current
\* ingredient exactly when 0 <= cursor < length and "Batch complete"
\* exactly when cursor = length.
C17_CursorWithinOrder ==
    /\ \A key \in WalkKeys :
          \/ session_step[key].t \in {Absent, "null"}
          \/ /\ session_step[key].t = "int"
             /\ session_order[key].t = "list"
             /\ 0 <= session_step[key].v
             /\ session_step[key].v <= Len(session_order[key].v)
    /\ Rendered =>
          /\ walker_view.state = "ingredient"
                <=> (Cursor.t = "int" /\ 0 <= Cursor.v /\ Cursor.v < Len(Order))
          /\ walker_view.state = "ingredient" => walker_view.ing = Order[Cursor.v + 1]
          /\ walker_view.state = "complete"
                <=> (Cursor.t = "int" /\ Cursor.v = Len(Order))

\* C17 witness: a walk of two ingredients shown complete while the walk of
\* the other recipe is at its first ingredient.
C17_Witness ==
    /\ Rendered
    /\ walker_view.state = "complete"
    /\ Len(Order) = 2
    /\ \E key \in WalkKeys \ {ShownKey} :
          session_step[key] = StepInt(0) /\ Len(session_order[key].v) > 0

\* C18: the run of a Start click stores cursor 0 and the ingredient names of
\* the scaled recipe of that run as the order; no other run (Next, Back,
\* Reset, Start over, a new scaling) changes an order already captured.
C18_OrderCapturedAtStart ==
    [][/\ clicked' = "start" =>
             /\ session_step'[key_prefix(selected_name')] = StepInt(0)
             /\ session_order'[key_prefix(selected_name')]
                    = OrderList(KeyList(scaled'))
       /\ clicked' # "start" =>
             \A key \in WalkKeys :
                 session_order[key].t = "list" => session_order'[key] = session_order[key]
      ]_vars

\* C18 witness: Back was clicked in a walk whose captured order has two
\* ingredients, on a recipe scaled by 2.5.
C18_Witness ==
    /\ clicked = "back"
    /\ Len(Order) = 2
    /\ scale_factor = <<5, 2>>

\* C19: a Next click is made with the ingredient on screen and adds exactly
\* 1 to the cursor; n Next clicks right after a Start leave the cursor at
\* n, and the walk complete when n is the length of the captured order.
C19_NextAdvancesByOne ==
    /\ [](\A key \in WalkKeys :
             next_run[key] # NoNum =>
                 /\ session_step[key] = StepInt(next_run[key])
                 /\ (Rendered /\ key = ShownKey
                        /\ next_run[key] = Len(session_order[key].v))
                       => walker_view.state = "complete")
    /\ [][clicked' = "next" =>
             /\ walker_view.state = "ingredient"
             /\ Cursor.t = "int" /\ 0 <= Cursor.v /\ Cursor.v < Len(Order)
             /\ session_step'[ShownKey] = StepInt(Cursor.v + 1)
         ]_vars

\* C19 witness: Start and two Next clicks completed a walk of two
\* ingredients.
C19_Witness ==
    /\ clicked = "next"
    /\ next_run[ShownKey] = 2
    /\ Len(Order) = 2
    /\ walker_view.state = "complete"

\* C20: Back is disabled at cursor 0; a Back click takes exactly 1 from a
\* cursor that is at least 1; no cursor is ever negative.
C20_BackFlooredAtZero ==
    /\ [](/\ \A key \in WalkKeys :
                session_step[key].t = "int" => session_step[key].v >= 0
          /\ (Rendered /\ walker_view.state = "ingredient" /\ Cursor.v = 0)
                => walker_view.back_disabled)
    /\ [][clicked' = "back" =>
             /\ Cursor.t = "int" /\ Cursor.v >= 1
             /\ session_step'[ShownKey] = StepInt(Cursor.v - 1)
         ]_vars

\* C20 witness: a Back click brought the cursor back to 0, where Back is
\* disabled.
C20_Witness ==
    /\ clicked = "back"
    /\ Cursor = StepInt(0)
    /\ walker_view.back_disabled

\* C21 (as claimed): a Start over click is made from complete, stores
\* cursor 0, leaves the captured order as it is and shows an ingredient
\* again.
C21_StartOverInProgress ==
    [][clicked' = "start over" =>
          /\ walker_view.state = "complete"
          /\ session_step'[ShownKey] = StepInt(0)
          /\ session_order' = session_order
          /\ walker_view'.state = "ingredient"
      ]_vars

\* C21 (amended): a Start over click is made from complete, stores cursor 0
\* and leaves every captured order as it is; the first ingredient of the
\* captured order is shown again when the order has one, and the walk of an
\* empty order is complete again at once.
C21_StartOverKeepsOrder ==
    [][clicked' = "start over" =>
          /\ walker_view.state = "complete"
          /\ session_step'[ShownKey] = StepInt(0)
          /\ session_order' = session_order
          /\ Len(Order) > 0 =>
                /\ walker_view'.state = "ingredient"
                /\ walker_view'.ing = Order[1]
          /\ Len(Order) = 0 => walker_view'.state = "complete"
      ]_vars

\* C21 witness: Start over brought a completed walk of two ingredients back
\* to its first ingredient.
C21_Witness ==
    /\ clicked = "start over"
    /\ Cursor = StepInt(0)
    /\ Len(Order) = 2
    /\ walker_view.state = "ingredient"

\* C30: normalize_inventory_schema reports changed = True exactly when some
\* input value is not a mapping, whatever it rewrites in the entries that
\* are mappings, and its output has exactly the input's ingredient names.
C30_ChangedIffLegacyEntry ==
    (inv_calls = 1 /\ inv_ret.shape # "raised") =>
        /\ inv_ret.shape = "mapping, flag"
        /\ inv_ret.flag = (\E k \in DOMAIN inv_in : inv_in[k].t # "dict")
        /\ DOMAIN inv_ret.val = DOMAIN inv_in

\* C30 witness: a file of mappings only, one with an upper-case unit and an
\* integer amount, normalized: the entry was rewritten and changed is False.
C30_Witness ==
    /\ inv_calls = 1
    /\ inv_ret.shape = "mapping, flag"
    /\ DOMAIN inv_in = {"a", "b"}
    /\ inv_in["a"] = InvDict(PyInt(10), UnitStr("KG"))
    /\ inv_ret.val["a"] = InvDict(PyFloat(10), UnitStr("kg"))
    /\ ~inv_ret.flag

\* a run of the screen, caused by no walker button, that shows another
\* recipe than the run before it
SwitchedRecipe ==
    /\ scale_mode' # "none"
    /\ clicked' = "none"
    /\ prev_recipe_for_scale \notin {NoName, selected_name'}

\* C29: switching the selected recipe removes every session key that starts
\* with "scale__" and no other key: the keys that do not start with it stay,
\* the stored walker cursor and captured order of every recipe are unchanged,
\* and the recipe switched to, if its walk was stored, is shown at its stored
\* step with its stored order.
C29_SwitchClearsOnlyScaleKeys ==
    [][SwitchedRecipe =>
          /\ \A key \in session_keys :
                IF StartsWith(key, "scale__")
                THEN key \notin session_keys'
                ELSE key \in session_keys'
          /\ \A key \in WalkKeys :
                /\ session_step[key] # StepAbsent =>
                      session_step'[key] = session_step[key]
                /\ session_order[key] # OrderAbsent =>
                      session_order'[key] = session_order[key]
          /\ LET key == key_prefix(selected_name')
             IN  session_step[key] # StepAbsent =>
                    walker_view' = WalkerView(session_step[key], session_order[key].v)
      ]_vars

\* the operator is back on r1 by a plain run, one ingredient into its walk,
\* while the walk of r2 is one ingredient in too
C29_Witness ==
    /\ clicked = "none"
    /\ selected_name = "r1"
    /\ prev_recipe_for_scale = "r1"
    /\ session_step["bs_r1"] = StepInt(1)
    /\ session_step["bs_r2"] = StepInt(1)
    /\ session_order["bs_r2"] = OrderList(<<"a", "b">>)
    /\ walker_view = [state |-> "ingredient", ing |-> "b", back_disabled |-> FALSE]
    /\ ScaleKey("r1", "multiplier") \in session_keys
    /\ ScaleKey("r2", "multiplier") \notin session_keys
    /\ PrevRecipeKey \in session_keys

C22_SaveKeepsExcludedRecords ==
    [][(/\ screen'.page = "Ingredient Inventory"
        /\ screen'.button = "Save Ingredient Inventory"
        /\ ingredient_file.t = "doc")
       => \A ing \in screen'.exclude_list \cap DOMAIN ingredient_file.v :
             /\ ingredient_file'.t = "doc"
             /\ ing \in DOMAIN ingredient_file'.v
             /\ ingredient_file'.v[ing] = ingredient_file.v[ing]
      ]_vars

\* C23 (as claimed): a run of the inventory screen over a file with a legacy
\* bare-number entry leaves the file holding {amount, unit} mappings only,
\* which normalize_inventory_schema returns with changed = False.
C23_MigrationSavedOnce ==
    [][(/\ screen'.page = "Ingredient Inventory"
        /\ ingredient_file.t = "doc"
        /\ exclude_file.t # "malformed"
        /\ \E ing \in DOMAIN ingredient_file.v : ingredient_file.v[ing].t = "bare")
       => /\ ingredient_file'.t = "doc"
          /\ \A ing \in DOMAIN ingredient_file'.v : ingredient_file'.v[ing].t = "dict"
          /\ normalize_inventory_schema(ingredient_file'.v).shape = "mapping, flag"
          /\ ~normalize_inventory_schema(ingredient_file'.v).flag
      ]_vars

\* C24 (as claimed): loading a document that holds malformed JSON raises the
\* decode error; the default is not returned in its place.
C24_MalformedJsonSurfaced ==
    (lj.path # "none" /\ FileAt(lj.path).t = "malformed") =>
        lj.raised /\ ~lj.defaulted

\* C25: load_json returns the default passed, without raising, when the file
\* does not exist; without recipes.json a run shows the error and stops, so
\* that no recipe is loaded, normalized or scaled and nothing else is called.
C25_MissingFileIsDefault ==
    /\ (lj.path # "none" /\ ~exists(FileAt(lj.path))) =>
          ~lj.raised /\ lj.defaulted
    /\ ~recipes_exists =>
          /\ screen.page \in {"none", "Missing recipes file"}
          /\ lj = NoLoad
          /\ recipes = EmptyMap /\ norm_calls = 0
          /\ scale_mode = "none" /\ selected_name = NoName /\ scaled = EmptyMap

\* load_json was called for the inventory file, which does not exist
C25_Witness ==
    /\ lj.path = "INGREDIENT_FILE"
    /\ ~exists(ingredient_file)
    /\ lj.defaulted
    /\ ~lj.raised
    /\ screen.page = "load_json"

\* the amount of an inventory record and the min of a threshold record
RecordAmount(rec) == IF rec.t = "dict" THEN rec.amount.v ELSE rec.v.v
RecordMin(rec) == IF rec.t = "dict" THEN rec.min.v ELSE rec.v.v

\* C26 (as claimed): after a run of the inventory screen over well-formed
\* files an ingredient is listed as needing reorder exactly when it has a
\* threshold record and an inventory record, is not excluded and its amount
\* is strictly less than its min.
C26_ReorderExactlyBelowMin ==
    (/\ screen.page = "Ingredient Inventory"
     /\ exclude_file.t # "malformed"
     /\ ingredient_file.t = "doc"
     /\ threshold_file.t = "doc")
    => \A ing \in IngNames :
          ing \in screen.needs_order <=>
             /\ ing \in DOMAIN threshold_file.v
             /\ ing \in DOMAIN ingredient_file.v
             /\ ing \notin screen.exclude_list
             /\ RecordAmount(ingredient_file.v[ing]) < RecordMin(threshold_file.v[ing])

\* the ingredient each of the two operators works on
OwnIngredient(s) == IF s = 1 THEN "a" ELSE "b"

\* C28 (as claimed): a save by a session that had loaded the inventory
\* reports nothing and leaves the file holding the mapping the session wrote,
\* in which every ingredient the session did not work on has the value the
\* session had loaded, whatever the other session saved in between.
C28_LastWriteWins ==
    [][(/\ screen'.page = "Ingredient Inventory"
        /\ screen'.button = "Save Ingredient Inventory"
        /\ loaded[screen'.session].t = "doc")
       => /\ screen'.raised = "none"
          /\ ingredient_file'.t = "doc"
          /\ \A ing \in DOMAIN loaded[screen'.session].v \ {OwnIngredient(screen'.session)} :
                /\ ing \in DOMAIN ingredient_file'.v
                /\ ingredient_file'.v[ing] = loaded[screen'.session].v[ing]
      ]_vars

====
